---- MODULE Spec2Model ----
(***************************************************************************)
(* The Express server of src/public/server.js: a proxy in front of the     *)
(* HubSpot CRM client and the OpenAI client.  One request is followed from  *)
(* its arrival to its response; every `await` of an external call is a      *)
(* point where the handler is suspended, so each action runs a handler from *)
(* one await to the next.                                                   *)
(***************************************************************************)
EXTENDS Integers, Sequences, FiniteSets, TLC

(***************************************************************************)
(* JavaScript values.  A value is a tagged record; an object carries a      *)
(* function from its own property names to values.                          *)
(***************************************************************************)
Undefined == [t |-> "undefined"]

Null == [t |-> "null"]

Str(s) == [t |-> "string", s |-> s]

Num(n) == [t |-> "number", n |-> n]

Obj(f) == [t |-> "object", o |-> f]

Arr(q) == [t |-> "array", a |-> q]

Bool(b) == [t |-> "boolean", b |-> b]

NoFields == [k \in {} |-> Undefined]

EmptyObj == Obj(NoFields)

IsNullish(v) == v.t \in {"undefined", "null"}

\* ToBoolean: undefined, null, "" and 0 are falsy, every object and array is truthy.
Truthy(v) ==
  CASE v.t = "undefined" -> FALSE
    [] v.t = "null" -> FALSE
    [] v.t = "string" -> v.s /= ""
    [] v.t = "number" -> v.n /= 0
    [] v.t = "boolean" -> v.b
    [] OTHER -> TRUE

\* a || b
Or(a, b) == IF Truthy(a) THEN a ELSE b

\* v.k on a value that is not nullish (the caller decides what a nullish v throws).
Get(v, k) == IF v.t = "object" /\ k \in DOMAIN v.o THEN v.o[k] ELSE Undefined

\* v?.k
OptGet(v, k) == IF IsNullish(v) THEN Undefined ELSE Get(v, k)

\* Array.isArray(v)
IsArray(v) == v.t = "array"

Digit(d) == <<"0", "1", "2", "3", "4", "5", "6", "7", "8", "9">>[d + 1]

RECURSIVE NumToString(_)
NumToString(n) == IF n < 10 THEN Digit(n) ELSE NumToString(n \div 10) \o Digit(n % 10)

\* String(v) for the values a request body can hold.
JSString(v) ==
  CASE v.t = "undefined" -> "undefined"
    [] v.t = "null" -> "null"
    [] v.t = "string" -> v.s
    [] v.t = "number" -> NumToString(v.n)
    [] v.t = "boolean" -> IF v.b THEN "true" ELSE "false"
    [] v.t = "array" -> IF v.a = <<>> THEN "" ELSE "[array]"
    [] OTHER -> "[object Object]"

\* The TypeError raised by reading a property of undefined or null.
TypeErr == Obj([message |-> Str("Cannot read properties of undefined")])

(***************************************************************************)
(* External calls.  `calls` is the log of the calls one request has made to *)
(* the CRM client and the summarization client, each pending until the      *)
(* client settles it with a value ("ok") or throws ("err").                 *)
(***************************************************************************)
Call(api, args) == [api |-> api, args |-> args, st |-> "pending", out |-> Undefined]

\* The handler reaches `await client.api(...args)`: the call starts.
Issue(log, api, args) == Append(log, Call(api, args))

PendingIdx(log) == {k \in 1..Len(log) : log[k].st = "pending"}

FirstPending(log) == CHOOSE k \in PendingIdx(log) : \A j \in PendingIdx(log) : k <= j

\* The client settles the awaited call.
Settle(log, st, out) ==
  [log EXCEPT ![FirstPending(log)] = [@ EXCEPT !.st = st, !.out = out]]

\* res.status(status).json(body)
Response(status, body) == [status |-> status, body |-> body]

HandleHubSpotErrorNoStatus(err, message) ==
  Response(Num(500),
           Obj([error |-> Str(message),
                details |-> Or(Or(OptGet(OptGet(err, "response"), "body"),
                                  OptGet(err, "message")),
                               Str("Unknown HubSpot error"))]))

\* handleHubSpotError(err, res, message)
HandleHubSpotError(err, message) ==
  Response(Or(OptGet(err, "statusCode"), Num(500)),
           Obj([error |-> Str(message),
                details |-> Or(Or(OptGet(OptGet(err, "response"), "body"),
                                  OptGet(err, "message")),
                               Str("Unknown HubSpot error"))]))

ExtractListResultsBodyFirst(apiResponse) ==
  IF ~Truthy(apiResponse) THEN Arr(<<>>)
  ELSE IF Truthy(Get(apiResponse, "body"))
          /\ IsArray(Get(Get(apiResponse, "body"), "results"))
       THEN Get(Get(apiResponse, "body"), "results")
  ELSE IF IsArray(Get(apiResponse, "results")) THEN Get(apiResponse, "results")
  ELSE Arr(<<>>)

\* the property reads of extractListResults throw: one of them is made on undefined
\* or null (apiResponse.results and apiResponse.body past the !apiResponse return,
\* apiResponse.body.results past the apiResponse.body && test)
ExtractListResultsThrows(apiResponse) ==
  IF ~Truthy(apiResponse) THEN FALSE
  ELSE \/ IsNullish(apiResponse)
       \/ /\ ~IsArray(Get(apiResponse, "results"))
          /\ Truthy(Get(apiResponse, "body"))
          /\ IsNullish(Get(apiResponse, "body"))

\* extractListResults(apiResponse)
ExtractListResults(apiResponse) ==
  IF ~Truthy(apiResponse) THEN Arr(<<>>)
  ELSE IF IsArray(Get(apiResponse, "results")) THEN Get(apiResponse, "results")
  ELSE IF Truthy(Get(apiResponse, "body"))
          /\ IsArray(Get(Get(apiResponse, "body"), "results"))
       THEN Get(Get(apiResponse, "body"), "results")
  ELSE Arr(<<>>)

\* { id: r.id || r.body?.id, properties: r.properties || r.body?.properties }
\* for a response r that is not nullish.
IdPropsOf(r) ==
  Obj([id |-> Or(Get(r, "id"), OptGet(Get(r, "body"), "id")),
       properties |-> Or(Get(r, "properties"), OptGet(Get(r, "body"), "properties"))])

ContactFromCreateTopOnly(createResponse) ==
  Obj([id |-> Get(createResponse, "id"), properties |-> Get(createResponse, "properties")])

\* const contact = {...} in POST /api/contacts
ContactFromCreate(createResponse) == IdPropsOf(createResponse)

\* const dealId = createResponse.id || createResponse.body?.id
DealIdFromCreate(createResponse) ==
  Or(Get(createResponse, "id"), OptGet(Get(createResponse, "body"), "id"))

\* const dealPropertiesCreated = createResponse.properties || createResponse.body?.properties
DealPropsFromCreate(createResponse) ==
  Or(Get(createResponse, "properties"), OptGet(Get(createResponse, "body"), "properties"))

DealFromGetByIdRaw(deal) == deal

\* the record pushed to `deals` in GET /api/contacts/:contactId/deals
DealFromGetById(deal) == IdPropsOf(deal)

\* the record returned by getContactFromHubSpot
ContactFromGetById(c) == IdPropsOf(c)

\* the record pushed to `deals` in getDealsForContactFromHubSpot
DealFromGetByIdAI(deal) == IdPropsOf(deal)

\* associations.results || []
AssocResultsOf(associations) == Or(Get(associations, "results"), Arr(<<>>))

\* reading associations.results, or mapping a.toObjectId over it, throws
AssocThrows(associations) ==
  \/ IsNullish(associations)
  \/ ~IsArray(AssocResultsOf(associations))
  \/ \E k \in 1..Len(AssocResultsOf(associations).a) :
       IsNullish(AssocResultsOf(associations).a[k])

DealIdsOfUnfiltered(associations) ==
  [k \in 1..Len(AssocResultsOf(associations).a) |->
     Get(AssocResultsOf(associations).a[k], "toObjectId")]

\* assocResults.map((a) => a.toObjectId).filter(Boolean)
DealIdsOf(associations) ==
  SelectSeq([k \in 1..Len(AssocResultsOf(associations).a) |->
               Get(AssocResultsOf(associations).a[k], "toObjectId")],
            Truthy)

ContactPropertyList ==
  Arr(<<Str("firstname"), Str("lastname"), Str("email"), Str("phone"),
        Str("address"), Str("jobtitle"), Str("company")>>)

DealPropertyList ==
  Arr(<<Str("dealname"), Str("amount"), Str("dealstage"), Str("pipeline")>>)

\* limit, after, properties, propertiesWithHistory, associations, archived
PageArgs(properties) ==
  <<Num(50), Undefined, properties, Undefined, Undefined, Bool(FALSE)>>

AssociationSpec ==
  Arr(<<Obj([associationCategory |-> Str("HUBSPOT_DEFINED"), associationTypeId |-> Num(3)])>>)

VARIABLES openai, route, reqBody, reqParam, pc, calls, resp, dealId,
          dealPropertiesCreated, dealIds, deals, contact, crmDeals, crmAssocs, probe,
          selectedContactId, selectedContact, selectedContactInfo, aiInsightBtnDisabled,
          dealsStatus, dealsTable, loads, selections

vars == <<openai, route, reqBody, reqParam, pc, calls, resp, dealId,
          dealPropertiesCreated, dealIds, deals, contact, crmDeals, crmAssocs, probe,
          selectedContactId, selectedContact, selectedContactInfo, aiInsightBtnDisabled,
          dealsStatus, dealsTable, loads, selections>>

\* the state of the browser page (app.js): its two globals, the elements it writes,
\* and the calls of loadDealsForContact that are suspended at an await
Client == <<selectedContactId, selectedContact, selectedContactInfo, aiInsightBtnDisabled,
            dealsStatus, dealsTable, loads, selections>>

(***************************************************************************)
(* Inputs: the request bodies a caller can send and the values the two      *)
(* external clients can settle a call with.                                 *)
(***************************************************************************)
\* the longest association list the CRM answers with
MaxAssoc == 2

ContactRequestBodies ==
  { Undefined, EmptyObj,
    Obj([properties |-> EmptyObj]),
    Obj([properties |-> Obj([email |-> Str("")])]),
    Obj([properties |-> Str("a@b.c")]),
    Obj([properties |-> Obj([email |-> Str("a@b.c"), firstname |-> Str("Ann")])]) }

DealPropertiesInputs ==
  { Undefined, EmptyObj, Obj([dealname |-> Str("")]),
    Obj([dealname |-> Str("Annual Plan"), amount |-> Str("100")]) }

ContactIdInputs == { Undefined, Null, Str(""), Num(0), Str("c1"), Num(42) }

\* a body with the given fields, a field given as undefined being left out
DealBody(dp, cid) ==
  Obj([k \in ({"dealProperties"} \ (IF dp = Undefined THEN {"dealProperties"} ELSE {}))
             \cup ({"contactId"} \ (IF cid = Undefined THEN {"contactId"} ELSE {}))
         |-> IF k = "dealProperties" THEN dp ELSE cid])

DealRequestBodies ==
  {Undefined} \cup { DealBody(dp, cid) : dp \in DealPropertiesInputs, cid \in ContactIdInputs }

SummaryRequestBodies ==
  {Undefined} \cup { DealBody(Undefined, cid) : cid \in ContactIdInputs }

ContactIdParams == { Str("c1"), Str("42") }

\* what a failing client call throws
ErrorValues ==
  { Obj([statusCode |-> Num(404),
         response |-> Obj([body |-> Obj([message |-> Str("resource not found")])]),
         message |-> Str("HTTP-Code: 404")]),
    Obj([statusCode |-> Num(429), message |-> Str("rate limited")]),
    Obj([statusCode |-> Num(502), response |-> Obj([body |-> Str("")]),
         message |-> Str("Bad Gateway")]),
    Obj([response |-> EmptyObj, message |-> Str("socket hang up")]),
    EmptyObj }

\* the shapes in which a client reports one record
SingleResponses(id, properties) ==
  { Obj([id |-> id, properties |-> properties, createdAt |-> Str("2024-01-01"),
         archived |-> Bool(FALSE)]),
    Obj([id |-> id, properties |-> properties]),
    Obj([body |-> Obj([id |-> id, properties |-> properties, createdAt |-> Str("2024-01-01")])]),
    EmptyObj,
    Undefined }

NewContactId == Str("201")

NewDealId == Str("101")

\* a record as the CRM lists it
CrmItem(id) ==
  Obj([id |-> Str(id), properties |-> Obj([name |-> Str(id)]),
       createdAt |-> Str("2024-01-01"), archived |-> Bool(FALSE)])

ItemLists == { Arr(<<>>), Arr(<<CrmItem("1")>>), Arr(<<CrmItem("2"), CrmItem("1")>>) }

ListResponses ==
  { Undefined, Null, EmptyObj, Obj([results |-> Str("none")]),
    Obj([results |-> EmptyObj, body |-> Obj([results |-> Arr(<<CrmItem("1")>>)])]),
    Obj([body |-> Str("raw")]) }
  \cup { Obj([results |-> l, paging |-> EmptyObj]) : l \in ItemLists }
  \cup { Obj([body |-> Obj([results |-> l])]) : l \in ItemLists }

AssocEntries ==
  { Obj([toObjectId |-> Str("d1")]), Obj([toObjectId |-> Str("d2")]),
    Obj([toObjectId |-> Num(0)]), Obj([type |-> Str("deal_to_contact")]) }

RECURSIVE SeqsUpTo(_, _)
SeqsUpTo(S, n) ==
  IF n = 0 THEN {<<>>}
  ELSE LET shorter == SeqsUpTo(S, n - 1)
       IN shorter \cup { Append(q, x) : q \in shorter, x \in S }

AssocResponses ==
  { Undefined, EmptyObj } \cup { Obj([results |-> Arr(q)]) : q \in SeqsUpTo(AssocEntries, MaxAssoc) }

DealResponses(id) == SingleResponses(id, Obj([dealname |-> Str("Plan"), amount |-> Str("100")]))

\* no normalization has been probed
NoProbe == [site |-> "none"]

Init ==
  /\ openai \in BOOLEAN
  /\ route = "none"
  /\ reqBody = Undefined
  /\ reqParam = Undefined
  /\ pc = "idle"
  /\ calls = <<>>
  /\ resp = <<>>
  /\ dealId = Undefined
  /\ dealPropertiesCreated = Undefined
  /\ dealIds = <<>>
  /\ deals = <<>>
  /\ contact = Undefined
  /\ crmDeals = {}
  /\ crmAssocs = {}
  /\ probe = NoProbe
  /\ selectedContactId = Null
  /\ selectedContact = Null
  /\ selectedContactInfo = Undefined
  /\ aiInsightBtnDisabled = TRUE
  /\ dealsStatus = ""
  /\ dealsTable = <<>>
  /\ loads = {}
  /\ selections = 0

Locals == <<dealId, dealPropertiesCreated, dealIds, deals, contact>>

Crm == <<crmDeals, crmAssocs>>

Request == <<route, reqBody, reqParam>>

\* a request arrives at an idle server
Arrives(r, body, param) ==
  /\ pc = "idle"
  /\ route' = r
  /\ reqBody' = body
  /\ reqParam' = param
  /\ UNCHANGED <<openai, probe, Client>>

\* the handler sends its response and ends
Send(response) ==
  /\ resp' = Append(resp, response)
  /\ pc' = "done"

\* GET /api/contacts up to its await
GetContactsStart ==
  /\ Arrives("GET /api/contacts", Undefined, Undefined)
  /\ calls' = Issue(calls, "contacts.getPage", PageArgs(ContactPropertyList))
  /\ pc' = "gc_page"
  /\ UNCHANGED <<resp, Locals, Crm>>

\* GET /api/contacts after its await
GetContactsReturns ==
  /\ pc = "gc_page"
  /\ \/ \E apiResponse \in ListResponses :
          /\ calls' = Settle(calls, "ok", apiResponse)
          /\ Send(Response(Num(200), Obj([results |-> ExtractListResults(apiResponse)])))
     \/ \E err \in ErrorValues :
          /\ calls' = Settle(calls, "err", err)
          /\ Send(HandleHubSpotError(err, "Error fetching contacts from HubSpot"))
  /\ UNCHANGED <<Client, probe, openai, Request, Locals, Crm>>

\* POST /api/contacts up to its await, or its 400
PostContactsStart ==
  \E body \in ContactRequestBodies :
    /\ Arrives("POST /api/contacts", body, Undefined)
    /\ LET properties == Get(Or(body, EmptyObj), "properties")
       IN IF ~Truthy(properties) \/ ~Truthy(Get(properties, "email"))
          THEN /\ Send(Response(Num(400),
                         Obj([error |-> Str("properties.email is required to create a contact")])))
               /\ UNCHANGED calls
          ELSE /\ calls' = Issue(calls, "contacts.create", <<Obj([properties |-> properties])>>)
               /\ pc' = "pc_create"
               /\ UNCHANGED resp
    /\ UNCHANGED <<Locals, Crm>>

\* POST /api/contacts after its await
PostContactsReturns ==
  /\ pc = "pc_create"
  /\ \/ \E createResponse \in SingleResponses(NewContactId, Get(reqBody, "properties")) :
          /\ calls' = Settle(calls, "ok", createResponse)
          /\ IF IsNullish(createResponse)
             THEN Send(HandleHubSpotError(TypeErr, "Error creating contact in HubSpot"))
             ELSE Send(Response(Num(201), ContactFromCreate(createResponse)))
     \/ \E err \in ErrorValues :
          /\ calls' = Settle(calls, "err", err)
          /\ Send(HandleHubSpotError(err, "Error creating contact in HubSpot"))
  /\ UNCHANGED <<Client, probe, openai, Request, Locals, Crm>>

\* GET /api/deals up to its await
GetDealsStart ==
  /\ Arrives("GET /api/deals", Undefined, Undefined)
  /\ calls' = Issue(calls, "deals.getPage", PageArgs(DealPropertyList))
  /\ pc' = "gd_page"
  /\ UNCHANGED <<resp, Locals, Crm>>

\* GET /api/deals after its await
GetDealsReturns ==
  /\ pc = "gd_page"
  /\ \/ \E apiResponse \in ListResponses :
          /\ calls' = Settle(calls, "ok", apiResponse)
          /\ Send(Response(Num(200), Obj([results |-> ExtractListResults(apiResponse)])))
     \/ \E err \in ErrorValues :
          /\ calls' = Settle(calls, "err", err)
          /\ Send(HandleHubSpotError(err, "Error fetching deals from HubSpot"))
  /\ UNCHANGED <<Client, probe, openai, Request, Locals, Crm>>

AssocCreateResponses ==
  { Undefined,
    Obj([fromObjectId |-> NewDealId, toObjectId |-> Str("c1"), labels |-> Arr(<<>>)]) }

DealsValidationNoContactCheck(body) ==
  LET dealProperties == Get(Or(body, EmptyObj), "dealProperties")
  IN IF ~Truthy(dealProperties) \/ ~Truthy(Get(dealProperties, "dealname"))
     THEN "dealProperties.dealname is required"
     ELSE "ok"

DealsValidationContactFirst(body) ==
  LET dealProperties == Get(Or(body, EmptyObj), "dealProperties")
      contactId == Get(Or(body, EmptyObj), "contactId")
  IN IF ~Truthy(contactId)
     THEN "contactId is required to associate the deal"
     ELSE IF ~Truthy(dealProperties) \/ ~Truthy(Get(dealProperties, "dealname"))
     THEN "dealProperties.dealname is required"
     ELSE "ok"

\* the two checks of POST /api/deals: the error message of the 400, or "ok"
DealsValidation(body) ==
  LET dealProperties == Get(Or(body, EmptyObj), "dealProperties")
      contactId == Get(Or(body, EmptyObj), "contactId")
  IN IF ~Truthy(dealProperties) \/ ~Truthy(Get(dealProperties, "dealname"))
     THEN "dealProperties.dealname is required"
     ELSE IF ~Truthy(contactId)
     THEN "contactId is required to associate the deal"
     ELSE "ok"

\* POST /api/deals up to its first await, or its 400
PostDealsStart ==
  \E body \in DealRequestBodies :
    /\ Arrives("POST /api/deals", body, Undefined)
    /\ IF DealsValidation(body) /= "ok"
       THEN /\ Send(Response(Num(400), Obj([error |-> Str(DealsValidation(body))])))
            /\ UNCHANGED calls
       ELSE /\ calls' = Issue(calls, "deals.create",
                              <<Obj([properties |-> Get(body, "dealProperties")])>>)
            /\ pc' = "pd_create"
            /\ UNCHANGED resp
    /\ UNCHANGED <<Locals, Crm>>

AssociateArgsRawContactId(id, contactId) ==
  <<id, Str("contacts"), contactId, AssociationSpec>>

\* the arguments of hubspotClient.crm.deals.associationsApi.create
AssociateArgs(id, contactId) ==
  <<id, Str("contacts"), Str(JSString(contactId)), AssociationSpec>>

\* POST /api/deals from the deal-create await to the association await
PostDealsCreateReturns ==
  /\ pc = "pd_create"
  /\ \/ \E createResponse \in SingleResponses(NewDealId, Get(reqBody, "dealProperties")) :
          /\ crmDeals' = crmDeals \cup {NewDealId}
          /\ IF IsNullish(createResponse)
             THEN /\ calls' = Settle(calls, "ok", createResponse)
                  /\ Send(HandleHubSpotError(TypeErr,
                            "Error creating deal or associating it with contact"))
                  /\ UNCHANGED <<dealId, dealPropertiesCreated>>
             ELSE /\ dealId' = DealIdFromCreate(createResponse)
                  /\ dealPropertiesCreated' = DealPropsFromCreate(createResponse)
                  /\ calls' = Issue(Settle(calls, "ok", createResponse),
                                    "deals.associations.create",
                                    AssociateArgs(dealId', Get(reqBody, "contactId")))
                  /\ pc' = "pd_assoc"
                  /\ UNCHANGED resp
     \/ \E err \in ErrorValues :
          /\ calls' = Settle(calls, "err", err)
          /\ Send(HandleHubSpotError(err, "Error creating deal or associating it with contact"))
          /\ UNCHANGED <<dealId, dealPropertiesCreated, crmDeals>>
  /\ UNCHANGED <<Client, probe, openai, Request, dealIds, deals, contact, crmAssocs>>

PostDealsAssocReturnsSwallow ==
  /\ pc = "pd_assoc"
  /\ \E out \in AssocCreateResponses \cup ErrorValues :
       /\ calls' = Settle(calls, IF out \in ErrorValues THEN "err" ELSE "ok", out)
       /\ crmAssocs' = IF out \in ErrorValues THEN crmAssocs
                       ELSE crmAssocs \cup {<<calls[Len(calls)].args[1], calls[Len(calls)].args[3]>>}
       /\ Send(Response(Num(201), Obj([id |-> dealId, properties |-> dealPropertiesCreated])))
  /\ UNCHANGED <<Client, probe, openai, Request, Locals, crmDeals>>

\* POST /api/deals after the association await
PostDealsAssocReturns ==
  /\ pc = "pd_assoc"
  /\ \/ \E assoc \in AssocCreateResponses :
          /\ calls' = Settle(calls, "ok", assoc)
          /\ crmAssocs' = crmAssocs \cup {<<calls[Len(calls)].args[1], calls[Len(calls)].args[3]>>}
          /\ Send(Response(Num(201), Obj([id |-> dealId, properties |-> dealPropertiesCreated])))
     \/ \E err \in ErrorValues :
          /\ calls' = Settle(calls, "err", err)
          /\ Send(HandleHubSpotError(err, "Error creating deal or associating it with contact"))
          /\ UNCHANGED crmAssocs
  /\ UNCHANGED <<Client, probe, openai, Request, Locals, crmDeals>>

FetchAllFrom(log, ids, k) ==
  log \o [j \in 1..(Len(ids) - k + 1) |-> Call("deals.getById", <<ids[k + j - 1], DealPropertyList>>)]

\* the k-th turn of `for (const id of dealIds)` reaches its await
FetchDeal(log, ids, k) == Issue(log, "deals.getById", <<ids[k], DealPropertyList>>)

\* GET /api/contacts/:contactId/deals up to its first await
ContactDealsStart ==
  \E contactId \in ContactIdParams :
    /\ Arrives("GET /api/contacts/:contactId/deals", Undefined, contactId)
    /\ calls' = Issue(calls, "contacts.associations.getAll", <<contactId, Str("deals")>>)
    /\ pc' = "cd_assoc"
    /\ UNCHANGED <<resp, Locals, Crm>>

\* from the association await to the first deal await, or to the response
ContactDealsAssocReturns ==
  /\ pc = "cd_assoc"
  /\ \/ \E associations \in AssocResponses :
          IF AssocThrows(associations)
          THEN /\ calls' = Settle(calls, "ok", associations)
               /\ Send(HandleHubSpotError(TypeErr,
                         "Error fetching deals for specific contact from HubSpot"))
               /\ UNCHANGED dealIds
          ELSE /\ dealIds' = DealIdsOf(associations)
               /\ IF Len(dealIds') = 0
                  THEN /\ calls' = Settle(calls, "ok", associations)
                       /\ Send(Response(Num(200), Obj([results |-> Arr(<<>>)])))
                  ELSE /\ calls' = FetchDeal(Settle(calls, "ok", associations), dealIds', 1)
                       /\ pc' = "cd_deal"
                       /\ UNCHANGED resp
     \/ \E err \in ErrorValues :
          /\ calls' = Settle(calls, "err", err)
          /\ Send(HandleHubSpotError(err, "Error fetching deals for specific contact from HubSpot"))
          /\ UNCHANGED dealIds
  /\ UNCHANGED <<Client, probe, openai, Request, dealId, dealPropertiesCreated, deals, contact, Crm>>

\* from one deal await to the next, or to the response
ContactDealsDealReturns ==
  /\ pc = "cd_deal"
  /\ \/ \E deal \in DealResponses(calls[FirstPending(calls)].args[1]) :
          IF IsNullish(deal)
          THEN /\ calls' = Settle(calls, "ok", deal)
               /\ Send(HandleHubSpotError(TypeErr,
                         "Error fetching deals for specific contact from HubSpot"))
               /\ UNCHANGED deals
          ELSE /\ deals' = Append(deals, DealFromGetById(deal))
               /\ IF Len(deals') < Len(dealIds)
                  THEN /\ calls' = FetchDeal(Settle(calls, "ok", deal), dealIds, Len(deals') + 1)
                       /\ UNCHANGED <<pc, resp>>
                  ELSE /\ calls' = Settle(calls, "ok", deal)
                       /\ Send(Response(Num(200), Obj([results |-> Arr(deals')])))
     \/ \E err \in ErrorValues :
          /\ calls' = Settle(calls, "err", err)
          /\ Send(HandleHubSpotError(err, "Error fetching deals for specific contact from HubSpot"))
          /\ UNCHANGED deals
  /\ UNCHANGED <<Client, probe, openai, Request, dealId, dealPropertiesCreated, dealIds, contact, Crm>>

Completions ==
  { Obj([choices |-> Arr(<<Obj([message |-> Obj([content |-> Str("Loyal customer.")])])>>)]),
    Obj([choices |-> Arr(<<>>)]),
    Undefined }

\* completion.choices[0].message.content throws
CompletionThrows(completion) ==
  \/ IsNullish(completion)
  \/ IsNullish(Get(completion, "choices"))
  \/ ~IsArray(Get(completion, "choices"))
  \/ Get(completion, "choices").a = <<>>
  \/ IsNullish(Get(completion, "choices").a[1])
  \/ IsNullish(Get(Get(completion, "choices").a[1], "message"))

\* the argument of openai.chat.completions.create: the fixed model and one user
\* message whose prompt embeds the serialized contact and deals
CompletionArgs(c, ds) ==
  <<Obj([model |-> Str("gpt-4o"),
         messages |-> Arr(<<Obj([role |-> Str("user"),
                                 content |-> Obj([contact |-> c, deals |-> Arr(ds)])])>>)])>>

AiErrorWithStatus(err) ==
  Response(Or(OptGet(err, "statusCode"), Num(500)),
           Obj([error |-> Str("Failed to generate AI insight"),
                details |-> Or(OptGet(err, "message"), err)]))

\* the catch block of POST /api/ai/customer-summary
AiError(err) ==
  Response(Num(500),
           Obj([error |-> Str("Failed to generate AI insight"),
                details |-> Or(OptGet(err, "message"), err)]))

SummaryGateConfigLast(body, configured) ==
  IF ~Truthy(Get(Or(body, EmptyObj), "contactId")) THEN "contactId is required"
  ELSE "ok"

\* the two early returns of POST /api/ai/customer-summary: the error message, or "ok"
SummaryGate(body, configured) ==
  IF ~Truthy(Get(Or(body, EmptyObj), "contactId")) THEN "contactId is required"
  ELSE IF ~configured
  THEN "AI not configured. Set OPENAI_API_KEY in your .env to enable this endpoint."
  ELSE "ok"

\* POST /api/ai/customer-summary up to its first await, or its early return
SummaryStart ==
  \E body \in SummaryRequestBodies :
    /\ Arrives("POST /api/ai/customer-summary", body, Undefined)
    /\ IF SummaryGate(body, openai) = "contactId is required"
       THEN /\ Send(Response(Num(400), Obj([error |-> Str("contactId is required")])))
            /\ UNCHANGED calls
       ELSE IF SummaryGate(body, openai) /= "ok"
       THEN /\ Send(Response(Num(500), Obj([error |-> Str(SummaryGate(body, openai))])))
            /\ UNCHANGED calls
       ELSE /\ calls' = Issue(calls, "contacts.getById",
                              <<Get(body, "contactId"), ContactPropertyList>>)
            /\ pc' = "ai_contact"
            /\ UNCHANGED resp
    /\ UNCHANGED <<Locals, Crm>>

\* getContactFromHubSpot returns, getDealsForContactFromHubSpot reaches its first await
SummaryContactReturns ==
  /\ pc = "ai_contact"
  /\ \/ \E c \in SingleResponses(Get(reqBody, "contactId"), Obj([email |-> Str("a@b.c")])) :
          IF IsNullish(c)
          THEN /\ calls' = Settle(calls, "ok", c)
               /\ Send(AiError(TypeErr))
               /\ UNCHANGED contact
          ELSE /\ contact' = ContactFromGetById(c)
               /\ calls' = Issue(Settle(calls, "ok", c), "contacts.associations.getAll",
                                 <<Get(reqBody, "contactId"), Str("deals")>>)
               /\ pc' = "ai_assoc"
               /\ UNCHANGED resp
     \/ \E err \in ErrorValues :
          /\ calls' = Settle(calls, "err", err)
          /\ Send(AiError(err))
          /\ UNCHANGED contact
  /\ UNCHANGED <<Client, probe, openai, Request, dealId, dealPropertiesCreated, dealIds, deals, Crm>>

\* getDealsForContactFromHubSpot from its association await on
SummaryAssocReturns ==
  /\ pc = "ai_assoc"
  /\ \/ \E associations \in AssocResponses :
          IF AssocThrows(associations)
          THEN /\ calls' = Settle(calls, "ok", associations)
               /\ Send(AiError(TypeErr))
               /\ UNCHANGED dealIds
          ELSE /\ dealIds' = DealIdsOf(associations)
               /\ IF Len(dealIds') = 0
                  THEN /\ calls' = Issue(Settle(calls, "ok", associations),
                                         "openai.chat.completions.create",
                                         CompletionArgs(contact, <<>>))
                       /\ pc' = "ai_llm"
                  ELSE /\ calls' = FetchDeal(Settle(calls, "ok", associations), dealIds', 1)
                       /\ pc' = "ai_deal"
               /\ UNCHANGED resp
     \/ \E err \in ErrorValues :
          /\ calls' = Settle(calls, "err", err)
          /\ Send(AiError(err))
          /\ UNCHANGED dealIds
  /\ UNCHANGED <<Client, probe, openai, Request, dealId, dealPropertiesCreated, deals, contact, Crm>>

\* getDealsForContactFromHubSpot from one deal await to the next, or to the completion await
SummaryDealReturns ==
  /\ pc = "ai_deal"
  /\ \/ \E deal \in DealResponses(calls[FirstPending(calls)].args[1]) :
          IF IsNullish(deal)
          THEN /\ calls' = Settle(calls, "ok", deal)
               /\ Send(AiError(TypeErr))
               /\ UNCHANGED deals
          ELSE /\ deals' = Append(deals, DealFromGetByIdAI(deal))
               /\ IF Len(deals') < Len(dealIds)
                  THEN /\ calls' = FetchDeal(Settle(calls, "ok", deal), dealIds, Len(deals') + 1)
                       /\ UNCHANGED pc
                  ELSE /\ calls' = Issue(Settle(calls, "ok", deal),
                                         "openai.chat.completions.create",
                                         CompletionArgs(contact, deals'))
                       /\ pc' = "ai_llm"
               /\ UNCHANGED resp
     \/ \E err \in ErrorValues :
          /\ calls' = Settle(calls, "err", err)
          /\ Send(AiError(err))
          /\ UNCHANGED deals
  /\ UNCHANGED <<Client, probe, openai, Request, dealId, dealPropertiesCreated, dealIds, contact, Crm>>

\* POST /api/ai/customer-summary after the completion await
SummaryCompletionReturns ==
  /\ pc = "ai_llm"
  /\ \/ \E completion \in Completions :
          /\ calls' = Settle(calls, "ok", completion)
          /\ IF CompletionThrows(completion)
             THEN Send(AiError(TypeErr))
             ELSE Send(Response(Num(200),
                    Obj([summary |-> Get(Get(Get(completion, "choices").a[1], "message"),
                                         "content")])))
     \/ \E err \in ErrorValues :
          /\ calls' = Settle(calls, "err", err)
          /\ Send(AiError(err))
  /\ UNCHANGED <<Client, probe, openai, Request, Locals, Crm>>

Next ==
  \/ GetContactsStart
  \/ GetContactsReturns
  \/ PostContactsStart
  \/ PostContactsReturns
  \/ GetDealsStart
  \/ GetDealsReturns
  \/ PostDealsStart
  \/ PostDealsCreateReturns
  \/ PostDealsAssocReturns
  \/ ContactDealsStart
  \/ ContactDealsAssocReturns
  \/ ContactDealsDealReturns
  \/ SummaryStart
  \/ SummaryContactReturns
  \/ SummaryAssocReturns
  \/ SummaryDealReturns
  \/ SummaryCompletionReturns

Spec == Init /\ [][Next]_vars

(***************************************************************************)
(* The normalization of a single-item response on its own: the four places  *)
(* that compute {id, properties}, applied to a response carrying the same   *)
(* id and properties once at top level and once nested under body.          *)
(***************************************************************************)
NormalizeSites == {"create-contact", "create-deal", "list-deals-for-contact", "get-contact"}

\* the values a response can hold as id, undefined standing for an absent field
IdValues == { Undefined, Null, Str(""), Num(0), Str("101"), Num(7) }

\* the values a response can hold as properties
PropertiesValues ==
  { Undefined, Null, Str(""), EmptyObj, Obj([dealname |-> Str("Plan")]),
    Obj([email |-> Str("a@b.c"), firstname |-> Str("")]) }

\* an object with the fields of f whose value is not undefined
Present(f) == Obj([k \in {j \in DOMAIN f : f[j] /= Undefined} |-> f[k]])

TopLevel(id, properties) == Present([id |-> id, properties |-> properties])

Nested(id, properties) == Obj([body |-> Present([id |-> id, properties |-> properties])])

\* the record each place computes from a response r
NormalizeAt(site, r) ==
  CASE site = "create-contact" -> ContactFromCreate(r)
    [] site = "create-deal" ->
         Obj([id |-> DealIdFromCreate(r), properties |-> DealPropsFromCreate(r)])
    [] site = "list-deals-for-contact" -> DealFromGetById(r)
    [] site = "get-contact" -> ContactFromGetById(r)

Server == <<openai, route, reqBody, reqParam, pc, calls, resp, dealId,
            dealPropertiesCreated, dealIds, deals, contact, crmDeals, crmAssocs>>

\* one place normalizes both shapes of one record
NormalizeBoth ==
  \E site \in NormalizeSites, id \in IdValues, properties \in PropertiesValues :
    /\ probe' = [site |-> site, id |-> id, properties |-> properties,
                 top |-> NormalizeAt(site, TopLevel(id, properties)),
                 nested |-> NormalizeAt(site, Nested(id, properties))]
    /\ UNCHANGED <<Server, Client>>

NextNormalize == NormalizeBoth

SpecNormalize == Init /\ [][NextNormalize]_vars

(***************************************************************************)
(* extractListResults on its own, applied to every shape of list response:  *)
(* values that are no object, and objects whose results and body.results    *)
(* are absent, a list, or something else.                                   *)
(***************************************************************************)
\* what a response can hold as results or body.results, undefined for absent
ResultsValues ==
  { Undefined, Null, Str("none"), Num(2), EmptyObj,
    Arr(<<>>), Arr(<<CrmItem("1")>>), Arr(<<CrmItem("2"), CrmItem("1")>>) }

\* what a response can hold as body, undefined for absent
BodyValues ==
  { Undefined, Null, Str("raw"), Num(0) }
  \cup { Present([results |-> v]) : v \in ResultsValues }

ExtractInputs ==
  { Undefined, Null, Str(""), Str("raw"), Num(0), Num(5), Bool(FALSE),
    Arr(<<CrmItem("1")>>) }
  \cup { Present([results |-> v, body |-> b]) : v \in ResultsValues, b \in BodyValues }

\* extractListResults is applied to one response
ExtractOne ==
  \E apiResponse \in ExtractInputs :
    /\ probe' = [site |-> "extractListResults", input |-> apiResponse,
                 threw |-> ExtractListResultsThrows(apiResponse),
                 output |-> ExtractListResults(apiResponse)]
    /\ UNCHANGED <<Server, Client>>

NextExtract == ExtractOne

SpecExtract == Init /\ [][NextExtract]_vars

(***************************************************************************)
(* The browser page (app.js): selecting a contact and loading its deals.    *)
(* A click runs onSelectContact and loadDealsForContact up to the fetch; a  *)
(* call of loadDealsForContact is then suspended at `await fetch(...)` and, *)
(* once the response is ok, at `await res.json()`, and the page stays live: *)
(* other clicks and other responses run in between, in any order.           *)
(***************************************************************************)
\* how many contacts the user selects
MaxSelections == 3

\* the rows of the contacts table the user can click
PageContacts ==
  { Obj([id |-> Str("c1"),
         properties |-> Obj([firstname |-> Str("Ann"), email |-> Str("ann@b.c")])]),
    Obj([id |-> Str("c2"),
         properties |-> Obj([firstname |-> Str("Bob"), lastname |-> Str("Ray")])]),
    Obj([id |-> Str("c3"), email |-> Str("cy@b.c")]) }

\* the deals the server lists for the contact id in the request path
DealsOnServer(id) ==
  CASE id = "c1" ->
         <<Obj([id |-> Str("d1"),
                properties |-> Obj([dealname |-> Str("Ann plan"), amount |-> Str("100"),
                                    dealstage |-> Str("won")])]),
           Obj([id |-> Str("d2"), properties |-> Obj([dealname |-> Str("Ann upgrade")])])>>
    [] id = "c2" ->
         <<Obj([id |-> Str("d3"),
                properties |-> Obj([dealname |-> Str("Bob plan"), amount |-> Str("50")])])>>
    [] OTHER -> <<>>

\* the statuses of a response that is not ok
FailureStatuses == {404, 500}

\* the <tr> appended for one deal
DealRow(deal) ==
  LET props == Or(Get(deal, "properties"), deal)
  IN [dealname |-> JSString(Or(Get(props, "dealname"), Str(""))),
      amount |-> JSString(Or(Get(props, "amount"), Str(""))),
      dealstage |-> JSString(Or(Get(props, "dealstage"), Str("")))]

\* the text of #selectedContactInfo, by its three interpolated parts
SelectedInfo(props) ==
  [firstname |-> JSString(Or(Get(props, "firstname"), Str(""))),
   lastname |-> JSString(Or(Get(props, "lastname"), Str(""))),
   email |-> JSString(Or(Get(props, "email"), Str("")))]

ClientRest == <<Server, probe>>

\* onSelectContact(contact), and loadDealsForContact(selectedContactId) up to its fetch
SelectContact ==
  /\ selections < MaxSelections
  /\ \E c \in PageContacts :
       LET props == Or(Get(c, "properties"), c)
       IN /\ selectedContactId' = Or(Get(c, "id"), Get(props, "id"))
          /\ selectedContact' = c
          /\ selectedContactInfo' = SelectedInfo(props)
          /\ aiInsightBtnDisabled' = FALSE
          /\ dealsStatus' = "Loading deals..."
          /\ dealsTable' = <<>>
          /\ loads' = loads \cup {[seq |-> selections + 1,
                                   contactId |-> selectedContactId',
                                   at |-> "fetch"]}
  /\ selections' = selections + 1
  /\ UNCHANGED ClientRest

\* `await fetch(...)` of one suspended loadDealsForContact settles
LoadFetchSettles ==
  /\ \E l \in {x \in loads : x.at = "fetch"} :
       \/ /\ loads' = (loads \ {l}) \cup {[l EXCEPT !.at = "json"]}
          /\ UNCHANGED <<dealsStatus, dealsTable>>
       \/ \E status \in FailureStatuses :
            /\ loads' = loads \ {l}
            /\ dealsStatus' = "Error loading deals: Failed to load deals ("
                                \o NumToString(status) \o ")"
            /\ UNCHANGED dealsTable
       \/ /\ loads' = loads \ {l}
          /\ dealsStatus' = "Error loading deals: Failed to fetch"
          /\ UNCHANGED dealsTable
  /\ UNCHANGED <<selectedContactId, selectedContact, selectedContactInfo,
                 aiInsightBtnDisabled, selections, ClientRest>>

\* `await res.json()` of one suspended loadDealsForContact settles and it renders
LoadJsonSettles ==
  /\ \E l \in {x \in loads : x.at = "json"} :
       \E data \in {Obj([results |-> Arr(DealsOnServer(JSString(l.contactId)))]), EmptyObj} :
         LET found == Or(Get(data, "results"), Arr(<<>>)).a
         IN /\ loads' = loads \ {l}
            /\ IF Len(found) = 0
               THEN /\ dealsStatus' = "No deals found for this contact."
                    /\ UNCHANGED dealsTable
               ELSE /\ dealsTable' = dealsTable \o [k \in 1..Len(found) |-> DealRow(found[k])]
                    /\ dealsStatus' = "Loaded " \o NumToString(Len(found)) \o " deal(s)."
  /\ UNCHANGED <<selectedContactId, selectedContact, selectedContactInfo,
                 aiInsightBtnDisabled, selections, ClientRest>>

NextClient ==
  \/ SelectContact
  \/ LoadFetchSettles
  \/ LoadJsonSettles

SpecClient == Init /\ [][NextClient]_vars

(***************************************************************************)
(* Properties.                                                              *)
(***************************************************************************)
Has(v, k) == v.t = "object" /\ k \in DOMAIN v.o

\* the value a single-item response carries under k: at top level, else under body
Carried(r, k) ==
  IF Has(r, k) THEN r.o[k]
  ELSE IF Has(r, "body") /\ Has(r.o["body"], k) THEN r.o["body"].o[k]
  ELSE Undefined

CarriedRecord(r) == Obj([id |-> Carried(r, "id"), properties |-> Carried(r, "properties")])

FieldsOf(v) == IF v.t = "object" THEN DOMAIN v.o ELSE {}

Started == pc /= "idle"

Sent(status) == Len(resp) = 1 /\ resp[1].status = Num(status)

InDeals == route = "POST /api/deals"

DealRequestComplete ==
  /\ InDeals
  /\ Has(reqBody, "dealProperties") /\ Has(reqBody.o["dealProperties"], "dealname")
  /\ Truthy(reqBody.o["dealProperties"].o["dealname"])
  /\ Has(reqBody, "contactId") /\ Truthy(reqBody.o["contactId"])

\* C1: POST /api/deals with a truthy dealname and contactId makes one deal-create
\* call, then, only once that call has succeeded, one association-create call with
\* the created deal's id, "contacts", String(contactId) and the HUBSPOT_DEFINED /
\* type 3 spec; 201 is sent only after both succeeded, with the deal's {id, properties}.
C1_CreateThenAssociate ==
  DealRequestComplete =>
    /\ Len(calls) \in {1, 2}
    /\ calls[1].api = "deals.create"
    /\ calls[1].args = <<Obj([properties |-> reqBody.o["dealProperties"]])>>
    /\ Len(calls) = 2 =>
         /\ calls[1].st = "ok"
         /\ calls[2].api = "deals.associations.create"
         /\ Len(calls[2].args) = 4
         /\ calls[2].args[1] = Carried(calls[1].out, "id")
         /\ calls[2].args[2] = Str("contacts")
         /\ calls[2].args[3].t = "string"
         /\ reqBody.o["contactId"] = Str("c1") => calls[2].args[3] = Str("c1")
         /\ reqBody.o["contactId"] = Num(42) => calls[2].args[3] = Str("42")
         /\ calls[2].args[4] =
              Arr(<<Obj([associationCategory |-> Str("HUBSPOT_DEFINED"),
                         associationTypeId |-> Num(3)])>>)
    /\ (\E k \in 1..Len(resp) : resp[k].status = Num(201)) =>
         /\ Len(calls) = 2 /\ calls[1].st = "ok" /\ calls[2].st = "ok"
         /\ resp = <<Response(Num(201), CarriedRecord(calls[1].out))>>
    /\ (Len(calls) = 2 /\ calls[2].st = "ok") => Sent(201)

C1_Witness ==
  /\ DealRequestComplete /\ reqBody.o["contactId"] = Num(42)
  /\ Sent(201) /\ resp[1].body.o["id"] = NewDealId
  /\ Has(calls[1].out, "body")

\* C2: when the deal-create call succeeds and the association-create call fails,
\* POST /api/deals answers with an error (never 201), makes no further call, and
\* the CRM holds the created deal with no association.
C2_NoCleanupAfterFailedAssociation ==
  (InDeals /\ Len(calls) >= 2 /\ calls[1].st = "ok" /\ calls[2].st = "err") =>
    /\ pc = "done"
    /\ Len(calls) = 2
    /\ Len(resp) = 1
    /\ resp[1].status.n >= 400
    /\ FieldsOf(resp[1].body) = {"error", "details"}
    /\ crmDeals = {NewDealId}
    /\ crmAssocs = {}

C2_Witness ==
  /\ InDeals /\ Len(calls) = 2 /\ calls[1].st = "ok" /\ calls[2].st = "err"
  /\ pc = "done" /\ Sent(404) /\ crmDeals = {NewDealId}

\* a request body lacks the field at the path (absent, or holding a falsy value)
Lacks(body, path) ==
  \/ ~Has(body, path[1])
  \/ ~Truthy(body.o[path[1]])
  \/ Len(path) = 2 /\ (~Has(body.o[path[1]], path[2]) \/ ~Truthy(body.o[path[1]].o[path[2]]))

Rejected(message) ==
  /\ pc = "done"
  /\ calls = <<>>
  /\ resp = <<Response(Num(400), Obj([error |-> Str(message)]))>>

\* C3: a POST /api/contacts, POST /api/deals or POST /api/ai/customer-summary request
\* that lacks a required field is answered 400 with no external call, whether or not
\* the summarization client is configured; lacking both dealname and contactId, POST
\* /api/deals reports the dealname.
C3_ValidationBeforeCalls ==
  /\ (route = "POST /api/contacts" /\ Lacks(reqBody, <<"properties", "email">>)) =>
       Rejected("properties.email is required to create a contact")
  /\ (InDeals /\ Lacks(reqBody, <<"dealProperties", "dealname">>)) =>
       Rejected("dealProperties.dealname is required")
  /\ (InDeals /\ ~Lacks(reqBody, <<"dealProperties", "dealname">>)
        /\ Lacks(reqBody, <<"contactId">>)) =>
       Rejected("contactId is required to associate the deal")
  /\ (route = "POST /api/ai/customer-summary" /\ Lacks(reqBody, <<"contactId">>)) =>
       Rejected("contactId is required")

C3_Witness ==
  /\ InDeals /\ reqBody = EmptyObj /\ Rejected("dealProperties.dealname is required")

\* C4: POST /api/ai/customer-summary with a truthy contactId and no summarization
\* client answers 500 with the configuration message and makes no call at all.
C4_ConfigurationBeforeFetch ==
  (route = "POST /api/ai/customer-summary" /\ ~Lacks(reqBody, <<"contactId">>) /\ ~openai) =>
    /\ pc = "done"
    /\ calls = <<>>
    /\ Len(resp) = 1
    /\ resp[1].status = Num(500)
    /\ resp[1].body =
         Obj([error |-> Str("AI not configured. Set OPENAI_API_KEY in your .env to enable this endpoint.")])

C4_Witness ==
  /\ route = "POST /api/ai/customer-summary" /\ reqBody = Obj([contactId |-> Num(42)])
  /\ ~openai /\ Sent(500) /\ calls = <<>>

InContactDeals == route = "GET /api/contacts/:contactId/deals"

\* the truthy toObjectId values of an association response, in its order
TruthyTargets(a) ==
  IF Has(a, "results") /\ a.o["results"].t = "array"
  THEN SelectSeq([k \in 1..Len(a.o["results"].a) |->
                    IF Has(a.o["results"].a[k], "toObjectId")
                    THEN a.o["results"].a[k].o["toObjectId"] ELSE Undefined],
                 Truthy)
  ELSE <<>>

\* an association response of objects: no results field, or a list of entry objects
AssocWellFormed(a) ==
  /\ a.t = "object"
  /\ Has(a, "results") =>
       /\ a.o["results"].t = "array"
       /\ \A k \in 1..Len(a.o["results"].a) : a.o["results"].a[k].t = "object"

AssocAnswered ==
  /\ InContactDeals /\ Len(calls) >= 1 /\ calls[1].st = "ok"
  /\ AssocWellFormed(calls[1].out)

\* C5: when the association query of GET /api/contacts/:contactId/deals succeeds
\* with no truthy toObjectId (no results field, an empty list, or only falsy
\* toObjectId), the response is {results: []} and no deal is fetched.
C5_NoDealsNoFetch ==
  (AssocAnswered /\ TruthyTargets(calls[1].out) = <<>>) =>
    /\ pc = "done"
    /\ Len(calls) = 1
    /\ resp = <<Response(Num(200), Obj([results |-> Arr(<<>>)]))>>

C5_Witness ==
  /\ AssocAnswered /\ Has(calls[1].out, "results")
  /\ Len(calls[1].out.o["results"].a) = 2
  /\ TruthyTargets(calls[1].out) = <<>>
  /\ Sent(200)

AllOk == \A k \in 1..Len(calls) : calls[k].st = "ok" /\ calls[k].out.t = "object"

\* C6: with n >= 1 truthy association ids d1..dn, GET /api/contacts/:contactId/deals
\* issues get-by-id for d1..dn in that order, never more than one outstanding and
\* each only after the one before returned, and on success answers with exactly n
\* records, the i-th being the normalized response for di (duplicates kept).
C6_SequentialOrderedFetch ==
  (AssocAnswered /\ Len(TruthyTargets(calls[1].out)) >= 1) =>
    LET ids == TruthyTargets(calls[1].out)
        n == Len(ids)
    IN /\ Len(calls) >= 2 /\ Len(calls) <= n + 1
       /\ \A k \in 2..Len(calls) :
            /\ calls[k].api = "deals.getById"
            /\ calls[k].args = <<ids[k - 1], DealPropertyList>>
       /\ \A k \in 1..(Len(calls) - 1) : calls[k].st = "ok"
       /\ Cardinality(PendingIdx(calls)) <= 1
       /\ (Len(calls) = n + 1 /\ AllOk) =>
            resp = <<Response(Num(200),
                      Obj([results |-> Arr([i \in 1..n |-> CarriedRecord(calls[i + 1].out)])]))>>
       /\ Sent(200) => (Len(calls) = n + 1 /\ AllOk)

C6_Witness ==
  /\ AssocAnswered /\ TruthyTargets(calls[1].out) = <<Str("d2"), Str("d2")>>
  /\ Sent(200) /\ Len(resp[1].body.o["results"].a) = 2
  /\ resp[1].body.o["results"].a[1].o["id"] = Str("d2")

ProxyRoutes ==
  {"GET /api/contacts", "POST /api/contacts", "GET /api/deals", "POST /api/deals",
   "GET /api/contacts/:contactId/deals"}

ContextMessage ==
  CASE route = "GET /api/contacts" -> "Error fetching contacts from HubSpot"
    [] route = "POST /api/contacts" -> "Error creating contact in HubSpot"
    [] route = "GET /api/deals" -> "Error fetching deals from HubSpot"
    [] route = "POST /api/deals" -> "Error creating deal or associating it with contact"
    [] route = "GET /api/contacts/:contactId/deals" ->
         "Error fetching deals for specific contact from HubSpot"

Failed == {k \in 1..Len(calls) : calls[k].st = "err"}

ExpectedStatus(err) == IF Has(err, "statusCode") THEN err.o["statusCode"] ELSE Num(500)

\* an empty response body counts as no body
ExpectedDetails(err) ==
  IF Has(err, "response") /\ Has(err.o["response"], "body")
     /\ err.o["response"].o["body"] /= Str("")
  THEN err.o["response"].o["body"]
  ELSE IF Has(err, "message") THEN err.o["message"]
  ELSE Str("Unknown HubSpot error")

\* C7: in the five CRM proxy handlers a failing CRM call gets exactly one response:
\* status the error's statusCode if it has one, else 500; body {error: the handler's
\* context message, details: the error's response body, else its message, else the
\* fixed fallback}; never a success body or a partial results list.
C7_UpstreamErrorResponse ==
  /\ Len(resp) <= 1
  /\ (route \in ProxyRoutes /\ Failed /= {}) =>
       /\ Failed = {Len(calls)}
       /\ pc = "done"
       /\ resp = <<Response(ExpectedStatus(calls[Len(calls)].out),
                            Obj([error |-> Str(ContextMessage),
                                 details |-> ExpectedDetails(calls[Len(calls)].out)]))>>

C7_Witness ==
  /\ InContactDeals /\ Len(calls) = 3 /\ Failed = {3} /\ Len(deals) = 1
  /\ Sent(429) /\ resp[1].body.o["details"] = Str("rate limited")

ListRoutes == {"GET /api/contacts", "GET /api/deals"}

Succeeded == Len(resp) = 1 /\ resp[1].status \in {Num(200), Num(201)} /\ route \in ProxyRoutes

\* the Contact or Deal records of a success response
SuccessRecords ==
  IF ~Succeeded THEN {}
  ELSE IF route \in {"POST /api/contacts", "POST /api/deals"} THEN {resp[1].body}
  ELSE {resp[1].body.o["results"].a[k] : k \in 1..Len(resp[1].body.o["results"].a)}

\* the list an external list response carries: results, else body.results, else none
CarriedList(r) ==
  IF Has(r, "results") /\ r.o["results"].t = "array" THEN r.o["results"]
  ELSE IF Has(r, "body") /\ Has(r.o["body"], "results") /\ r.o["body"].o["results"].t = "array"
  THEN r.o["body"].o["results"]
  ELSE Arr(<<>>)

\* C8 as stated: every record of every success response has exactly the fields
\* id and properties.
C8_Original == \A rec \in SuccessRecords : FieldsOf(rec) = {"id", "properties"}

\* C8 as amended: the records of POST /api/contacts, POST /api/deals and GET
\* /api/contacts/:contactId/deals have exactly the fields id and properties,
\* whichever shape the client returned; the items of GET /api/contacts and GET
\* /api/deals are the client's items as they came, extra fields included.
C8_CanonicalWhereNormalized ==
  /\ (Succeeded /\ route \notin ListRoutes) =>
       \A rec \in SuccessRecords : rec.t = "object" /\ FieldsOf(rec) = {"id", "properties"}
  /\ (Succeeded /\ route \in ListRoutes) =>
       resp[1].body = Obj([results |-> CarriedList(calls[1].out)])

C8_Witness ==
  /\ Succeeded /\ InContactDeals /\ Len(calls) = 2
  /\ Has(calls[2].out, "createdAt")
  /\ SuccessRecords = {Obj([id |-> Str("d1"),
                            properties |-> Obj([dealname |-> Str("Plan"), amount |-> Str("100")])])}

StandaloneRequest ==
  /\ InDeals /\ ~Lacks(reqBody, <<"dealProperties", "dealname">>)
  /\ ~Has(reqBody, "contactId")

\* C9 as stated: a POST /api/deals request with a truthy dealname and no contactId
\* creates the deal, is never answered 400, and makes no association-create call.
C9_Original ==
  StandaloneRequest =>
    /\ Len(calls) >= 1
    /\ \A k \in 1..Len(calls) : calls[k].api = "deals.create"
    /\ \A k \in 1..Len(resp) : resp[k].status /= Num(400)

\* C9 as amended: there is no standalone deal creation; a POST /api/deals request
\* with a truthy dealname and no contactId is answered 400 "contactId is required
\* to associate the deal" with no external call, and every 201 of POST /api/deals
\* follows a successful association-create call.
C9_NoStandaloneCreate ==
  /\ StandaloneRequest => Rejected("contactId is required to associate the deal")
  /\ (InDeals /\ Len(calls) >= 1) => ~Lacks(reqBody, <<"contactId">>)
  /\ (InDeals /\ Sent(201)) =>
       \E k \in 1..Len(calls) : calls[k].api = "deals.associations.create" /\ calls[k].st = "ok"

C9_Witness ==
  /\ StandaloneRequest /\ Sent(400) /\ calls = <<>> /\ crmDeals = {}

Probed == probe.site /= "none"

Keeps(v) == v = Undefined \/ Truthy(v)

\* C10 as stated: the normalized record is the same whether the response carries
\* id and properties at top level or nested under body.
C10_Original == Probed => probe.top = probe.nested

\* C10 as amended: for id and properties that are each truthy or absent, all four
\* places yield the same {id, properties} from the top-level and the nested shape,
\* an absent field coming out undefined; a falsy value that is present (null, "", 0)
\* comes out undefined from the top-level shape and as itself from the nested one.
C10_SameRecordForTruthyFields ==
  Probed =>
    /\ FieldsOf(probe.top) = {"id", "properties"}
    /\ FieldsOf(probe.nested) = {"id", "properties"}
    /\ probe.nested = Obj([id |-> probe.id, properties |-> probe.properties])
    /\ probe.top.o["id"] = IF Keeps(probe.id) THEN probe.id ELSE Undefined
    /\ probe.top.o["properties"] =
         IF Keeps(probe.properties) THEN probe.properties ELSE Undefined
    /\ (Keeps(probe.id) /\ Keeps(probe.properties)) => probe.top = probe.nested

C10_Witness ==
  /\ Probed /\ probe.site = "create-contact"
  /\ probe.id = Str("101") /\ probe.properties = Undefined
  /\ probe.top = probe.nested
  /\ probe.top = Obj([id |-> Str("101"), properties |-> Undefined])

Extracted == probe.site = "extractListResults"

\* C11: extractListResults(r) returns r.results when that is a list, otherwise
\* r.body.results when that is a list, otherwise the empty list, for every r (null,
\* undefined, values that are no object, results or body.results present but not a
\* list), and never throws.
C11_ExtractListResults ==
  Extracted =>
    /\ ~probe.threw
    /\ probe.output.t = "array"
    /\ probe.output = CarriedList(probe.input)

C11_Witness ==
  /\ Extracted
  /\ probe.input = Obj([results |-> Str("none"),
                        body |-> Obj([results |-> Arr(<<CrmItem("1")>>)])])
  /\ probe.output = Arr(<<CrmItem("1")>>)
  /\ ~probe.threw

SummaryRequested ==
  /\ route = "POST /api/ai/customer-summary"
  /\ ~Lacks(reqBody, <<"contactId">>)
  /\ openai

\* the calls the summary handler makes, in order, given the ids the association
\* query returned: contact, associations, one get-by-id per id, the completion
SummaryCallOk(k, ids) ==
  CASE k = 1 ->
         /\ calls[k].api = "contacts.getById"
         /\ calls[k].args = <<reqBody.o["contactId"], ContactPropertyList>>
    [] k = 2 ->
         /\ calls[k].api = "contacts.associations.getAll"
         /\ calls[k].args = <<reqBody.o["contactId"], Str("deals")>>
    [] k >= 3 /\ k <= Len(ids) + 2 ->
         /\ calls[k].api = "deals.getById"
         /\ calls[k].args = <<ids[k - 2], DealPropertyList>>
    [] k = Len(ids) + 3 -> calls[k].api = "openai.chat.completions.create"
    [] OTHER -> FALSE

\* C12: with a truthy contactId and a configured summarization client the calls of
\* POST /api/ai/customer-summary are contact get-by-id, association getAll, deal
\* get-by-id per associated id, then one summarization call, each only after all
\* before it succeeded; 200 {summary} is sent only after the summarization call
\* returned; a failing call is the last call and yields 500 "Failed to generate AI
\* insight" whatever its own status code.
C12_SummaryCallOrder ==
  SummaryRequested =>
    LET ids == IF Len(calls) >= 2 THEN TruthyTargets(calls[2].out) ELSE <<>>
    IN /\ Len(calls) >= 1
       /\ Len(resp) <= 1
       /\ \A k \in 1..Len(calls) : SummaryCallOk(k, ids)
       /\ \A k \in 1..(Len(calls) - 1) : calls[k].st = "ok"
       /\ Cardinality(PendingIdx(calls)) <= 1
       /\ Sent(200) =>
            /\ Len(calls) = Len(ids) + 3
            /\ calls[Len(calls)].st = "ok"
            /\ FieldsOf(resp[1].body) = {"summary"}
       /\ Failed /= {} =>
            /\ Failed = {Len(calls)}
            /\ pc = "done"
            /\ Sent(500)
            /\ FieldsOf(resp[1].body) = {"error", "details"}
            /\ resp[1].body.o["error"] = Str("Failed to generate AI insight")

C12_Witness ==
  /\ SummaryRequested /\ Len(calls) = 5
  /\ TruthyTargets(calls[2].out) = <<Str("d2"), Str("d1")>>
  /\ calls[5].st = "ok" /\ Sent(200)
  /\ resp[1].body = Obj([summary |-> Str("Loyal customer.")])

\* the rows the table holds for the deals of one contact
RowsFor(id) ==
  {DealRow(DealsOnServer(JSString(id))[k]) : k \in 1..Len(DealsOnServer(JSString(id)))}

\* C13: once no deal-list request is in flight, the deals table shows only deals of
\* the currently selected contact.
C13_TableShowsSelectedContact ==
  (loads = {} /\ selections > 0) =>
    \A k \in 1..Len(dealsTable) : dealsTable[k] \in RowsFor(selectedContactId)

====
